---- MODULE Spec2Model ----
(***************************************************************************)
(* Count-reconciliation engine of piSensor (src/sensor_v2.py).             *)
(*                                                                         *)
(* Three program threads act on the shared SystemState: the main thread    *)
(* (start, then the detect_metal loop), the GPIO callback thread (the      *)
(* buttons: toggle_pause, reset_count, confirm_count) and the sync thread  *)
(* (_background_sync_loop).  Each Python statement or call of a handler is *)
(* one step.  The code takes no lock, so under Spec the steps of the       *)
(* threads interleave freely; the other specifications run every handler  *)
(* to completion before another thread steps.  SpecShutdown adds the       *)
(* display thread (_display_update_loop) and stop(), SpecCrash a kill and  *)
(* restart of the process, SpecDrain the sync thread alone under fairness. *)
(*                                                                         *)
(* The environment is free: every sensor sample reads 0 or 1, every remote *)
(* call finds the server reachable or not, every SQLite call finds the     *)
(* local store working or not, and the clock may move on between any two   *)
(* steps.                                                                  *)
(***************************************************************************)
EXTENDS Integers, Sequences, FiniteSets, TLC

\* ------------------------------------------------------------------ bounds
\* sensor detections, the sum of unconfirmed remote rows, retries and remote
\* inserts per queue row; the counts of the two other programs
MaxEvents == 2
MaxRemote == 3
MaxRetry == 1
MaxInserts == 2
MaxCount == 2

\* --------------------------------------------------------- program constants
INITIAL_RETRY_DELAY == 30
MAX_RETRY_DELAY == 300
SENTINEL == 2

VARIABLES
    \* SystemState
    live_count, counting_paused, last_confirmed_count, unconfirmed_count,
    pending_upload_count, connection_status, last_sync_time, last_detection_time,
    \* SensorSystem.old_state, DatabaseManager.connection and .retry_delay, the
    \* rows of offline_counts
    old_state, connection, retry_delay, queue,
    \* remote store (MySQL): mfgreq_data.reqCount, heading_data.headStatus and the
    \* heading_rates rows, kept as the sum of the rows with
    \* updateFullDate >= lastCountUpdate (remUnconf) and, of those, the sum of the
    \* rows stamped with the current clock instant (remAtNow)
    reqCount, headStatus, remUnconf, remAtNow,
    \* main thread: position, and the value loaded by live_count += 1
    mpc, m_tmp,
    \* the sensor input: its level as far as it is known (2 before the first
    \* sample), and whether its last rise happened while counting was paused
    pin, rose_paused,
    \* button thread: position and the locals of confirm_count
    bpc, new_total, b_recs,
    \* sync thread: position and the locals of one loop body
    spc, counts, s_recs, s_i, uploaded_ids,
    \* history variables (not program state)
    detected, sensor_events, expected, lastRet, pre, calls, drained, live_inserts,
    \* process lifetime: SensorSystem.running, whether GPIO.cleanup() has run,
    \* the position of the display thread; and two more history variables:
    \* whether the process was killed and started again, and the counts that
    \* reset_count threw away
    running, released, dpc, restarted, discarded,
    \* the two other programs of the repository. sensor_counter_v2.py: the
    \* SensorCounter object, the pin poll_buttons is at, and (history) the last
    \* level of the sensor pin that a read returned. smartSensor.py: its globals
    \* and the position of its loop, and (history) the samples and the rows sent
    counter, c_i, seen, legacy, lhist

stateVars == <<live_count, counting_paused, last_confirmed_count, unconfirmed_count,
               pending_upload_count, connection_status, last_sync_time,
               last_detection_time>>
dbVars == <<connection, retry_delay>>
remoteVars == <<reqCount, headStatus, remUnconf, remAtNow>>
mainVars == <<mpc, m_tmp, old_state, pin, rose_paused>>
buttonVars == <<bpc, new_total, b_recs>>
syncVars == <<spc, counts, s_recs, s_i, uploaded_ids>>
histVars == <<detected, sensor_events, expected, lastRet, pre, calls, drained,
             live_inserts>>
lifeVars == <<running, released, dpc, restarted, discarded>>
progVars == <<counter, c_i, seen, legacy, lhist>>
vars == <<stateVars, dbVars, remoteVars, mainVars, buttonVars, syncVars,
          histVars, queue, lifeVars, progVars>>

\* ----------------------------------------------------------------- helpers
RECURSIVE SumSeq(_)
SumSeq(s) == IF s = <<>> THEN 0 ELSE Head(s) + SumSeq(Tail(s))

\* A row of offline_counts; its id is its position in queue.  inserts is a
\* history field: how often a sync tick inserted the row into heading_rates.
CountRecord(c) == [count |-> c, uploaded |-> FALSE, retry_count |-> 0, inserts |-> 0]

\* SystemState.total_unconfirmed_count
total_unconfirmed_count ==
    last_confirmed_count + unconfirmed_count + live_count + pending_upload_count

\* SELECT id ... WHERE uploaded = FALSE ORDER BY timestamp ASC: the ids, oldest
\* first (rows are appended with the current time, so id order is time order)
PendingIds(q) == SelectSeq([i \in 1..Len(q) |-> i], LAMBDA i : ~q[i].uploaded)

\* SELECT SUM(count) ... WHERE uploaded = FALSE
PendingSum(q) == SumSeq([k \in 1..Len(PendingIds(q)) |-> q[PendingIds(q)[k]].count])

\* The outcome of a SQLite call: the local store works (TRUE) or raises
DiskOutcomes == BOOLEAN

\* a get_pending_records that orders by timestamp DESC: newest first
get_pending_records_newest_first(d) ==
    IF d
    THEN LET p == PendingIds(queue)
         IN  [k \in 1..Len(p) |-> p[Len(p) + 1 - k]]
    ELSE <<>>

\* OfflineDataManager.get_pending_records: [] when the local store fails
get_pending_records(d) == IF d THEN PendingIds(queue) ELSE <<>>

\* OfflineDataManager.get_total_pending_count: 0 when the local store fails
get_total_pending_count(d) == IF d THEN PendingSum(queue) ELSE 0

\* OfflineDataManager.add_count_record: the queue afterwards
add_count_record(c, d) == IF d THEN Append(queue, CountRecord(c)) ELSE queue

\* a mark_uploaded that deletes the rows it was given instead of flagging them
mark_uploaded_purging(ids, d) ==
    IF d
    THEN LET keep == SelectSeq([i \in 1..Len(queue) |-> i],
                               LAMBDA i : \A k \in 1..Len(ids) : ids[k] # i)
         IN  [k \in 1..Len(keep) |-> queue[keep[k]]]
    ELSE queue

\* a mark_uploaded that also clears the retry count of the rows it flags
mark_uploaded_clearing(ids, d) ==
    IF d
    THEN [i \in 1..Len(queue) |->
            IF \E k \in 1..Len(ids) : ids[k] = i
            THEN [queue[i] EXCEPT !.uploaded = TRUE, !.retry_count = 0]
            ELSE queue[i]]
    ELSE queue

\* OfflineDataManager.mark_uploaded: the queue afterwards (a failure is swallowed)
mark_uploaded(ids, d) ==
    IF d
    THEN [i \in 1..Len(queue) |->
            IF \E k \in 1..Len(ids) : ids[k] = i
            THEN [queue[i] EXCEPT !.uploaded = TRUE] ELSE queue[i]]
    ELSE queue

\* OfflineDataManager.increment_retry_count: the queue afterwards
increment_retry_count(id, d) ==
    IF d THEN [queue EXCEPT ![id].retry_count = @ + 1] ELSE queue

\* The outcome of DatabaseManager.execute_query: "ok"; "error", the query
\* raised on an open connection (result None); "down", the connection is gone
\* and connect() failed (result None, connection = None)
QueryOutcomes == {"ok", "error", "down"}

\* DatabaseManager.execute_query, connection handling
AfterQuery(r) ==
    /\ connection' = (r # "down")
    /\ retry_delay' = IF r # "down" /\ ~connection THEN INITIAL_RETRY_DELAY
                      ELSE retry_delay

\* INSERT INTO heading_rates: the row is stamped now, so it counts as
\* unconfirmed and as a row of the current instant
InsertRate(c) ==
    /\ remUnconf' = remUnconf + c
    /\ remAtNow' = remAtNow + c

NoPre == [live |-> 0, last |-> 0, unconf |-> 0, pend |-> 0, q |-> <<>>, conn |-> "none"]

\* -------------------------------------------------------------------- Init
\* The state after SensorSystem.__init__: the SQLite file and the remote tables
\* outlive the process, so the queue may hold a row of an earlier run and the
\* remote total may be positive.
InitQueues == {<<>>, <<CountRecord(1)>>}
InitTotals == {1}

\* ------------------------------------------------ sensor_counter_v2.py, data
\* pin_map in its insertion order, which is the order poll_buttons reads in
PinOrder == <<"KEY1", "KEY2", "KEY3", "UP", "DOWN", "LEFT", "RIGHT", "PRESS",
              "SENSOR">>
PinNames == {PinOrder[i] : i \in 1..Len(PinOrder)}
\* What GPIO.input gives: a level, or an exception (written as ReadFails)
Levels == {0, 1}
ReadFails == -1
Reads == Levels \cup {ReadFails}
Statuses == <<"OFFLINE", "CONNECTING", "ONLINE">>
StatusIndex(st) == CHOOSE i \in 1..Len(Statuses) : Statuses[i] = st

\* SensorCounter.__init__: reads maps every pin to what GPIO.input gave at
\* construction, a failed read stores 1. last_button is written and never read
\* and is left out.
SensorCounter(reads) ==
    [ live_count |-> 0, unconfirmed_total |-> 0,
      connection_status |-> "OFFLINE", counting_active |-> FALSE,
      db_connected |-> FALSE, current_screen |-> 0,
      button_states |-> [p \in PinNames |->
                           IF reads[p] = ReadFails THEN 1 ELSE reads[p]] ]

\* ------------------------------------------------------ smartSensor.py, data
\* The globals as __main__ sets them: count = -1, oldState = 2
LegacyStart == [count |-> -1, oldState |-> 2, pc |-> "detect"]
\* History of the legacy sensor: the last sampled level (2 before the first
\* sample), the rising edges between samples since the last row was sent, and
\* the last row sent with the rising edges that preceded it
LegacyHistStart ==
    [sample |-> 2, edges |-> 0, sent |-> FALSE, studCount |-> 0, sent_edges |-> 0]

\* The other two programs before they are started
ProgramsIdle ==
    /\ counter = SensorCounter([p \in PinNames |-> 1])
    /\ c_i = 1 /\ seen = 1
    /\ legacy = LegacyStart /\ lhist = LegacyHistStart

\* h is heading_data.headStatus as the remote store holds it at start, q the
\* rows of offline_counts left by earlier runs
InitSensorSystem(h, q) ==
    /\ live_count = 0 /\ counting_paused = FALSE
    /\ last_confirmed_count = 0 /\ unconfirmed_count = 0 /\ pending_upload_count = 0
    /\ connection_status = "disconnected"
    /\ last_sync_time = 0 /\ last_detection_time = 0
    /\ old_state = SENTINEL
    /\ connection = FALSE /\ retry_delay = INITIAL_RETRY_DELAY
    /\ queue = q
    /\ reqCount \in InitTotals /\ headStatus = h
    /\ remUnconf = 0 /\ remAtNow = 0
    /\ mpc = "start" /\ m_tmp = 0
    /\ pin = SENTINEL /\ rose_paused = FALSE
    /\ bpc = "idle" /\ new_total = 0 /\ b_recs = <<>>
    /\ spc = "sleep" /\ counts = [confirmed |-> 0, unconfirmed |-> 0]
    /\ s_recs = <<>> /\ s_i = 1 /\ uploaded_ids = <<>>
    /\ detected = 0 /\ sensor_events = 0
    /\ expected = reqCount + PendingSum(queue)
    /\ lastRet = "none" /\ pre = NoPre /\ calls = {} /\ drained = 0
    /\ live_inserts = 0
    /\ running = TRUE /\ released = FALSE /\ dpc = "render"
    /\ restarted = FALSE /\ discarded = 0

InitState(h, q) == InitSensorSystem(h, q) /\ ProgramsIdle

InitWith(h) == \E q \in InitQueues : InitState(h, q)

Init == InitWith("ACTIVE")

\* ------------------------------------------------------------- environment
\* The clock moves on: no row inserted so far carries the current timestamp.
ClockTick ==
    /\ remAtNow > 0
    /\ remAtNow' = 0
    /\ UNCHANGED <<reqCount, headStatus, remUnconf>>
    /\ UNCHANGED <<stateVars, dbVars, mainVars, buttonVars, syncVars, histVars, queue>>
    /\ UNCHANGED <<lifeVars, progVars>>

\* ------------------------------------------------------------- main thread
\* SensorSystem.start: the initial connection attempt (the threads are started
\* before it); ok is whether connect() succeeds
start(ok) ==
    /\ mpc = "start"
    /\ mpc' = "poll"
    /\ connection' = ok
    /\ retry_delay' = IF ok THEN INITIAL_RETRY_DELAY ELSE retry_delay
    /\ connection_status' = IF ok THEN "connected" ELSE "disconnected"
    /\ UNCHANGED <<live_count, counting_paused, last_confirmed_count,
                   unconfirmed_count, pending_upload_count, last_sync_time,
                   last_detection_time>>
    /\ UNCHANGED <<m_tmp, old_state, pin, rose_paused>>
    /\ UNCHANGED <<remoteVars, buttonVars, syncVars, histVars, queue>>
    /\ UNCHANGED <<lifeVars, progVars>>

\* The input changes level while counting is paused (detect_metal returns
\* before it reads the pin, so the program does not see the change)
PinChange ==
    /\ counting_paused
    /\ mpc = "poll"
    /\ pin \in {0, 1}
    /\ pin' = 1 - pin
    /\ rose_paused' = (pin = 0)
    /\ UNCHANGED <<mpc, m_tmp, old_state>>
    /\ UNCHANGED <<stateVars, dbVars, remoteVars, buttonVars, syncVars, histVars, queue>>
    /\ UNCHANGED <<lifeVars, progVars>>

\* SensorSystem.detect_metal up to the load of live_count += 1; new_state is
\* the value GPIO.input returns.  A sample is a sensor event when the previous
\* sample was low and this one is high.  A sample that differs from the last
\* known level of the input shows a change that happened while counting.
detect_metal(new_state) ==
    /\ mpc = "poll"
    /\ ~counting_paused
    /\ ~(new_state = old_state /\ new_state = pin)
    /\ pin' = new_state
    /\ rose_paused' = IF new_state # pin THEN FALSE ELSE rose_paused
    /\ IF new_state = old_state
       THEN UNCHANGED <<mpc, m_tmp, sensor_events, old_state>>
       ELSE IF new_state = 1
       THEN /\ detected < MaxEvents
            /\ m_tmp' = live_count
            /\ mpc' = "store"
            /\ sensor_events' = sensor_events + (IF old_state = 0 THEN 1 ELSE 0)
            /\ UNCHANGED old_state
       ELSE /\ old_state' = new_state
            /\ UNCHANGED <<mpc, m_tmp, sensor_events>>
    /\ UNCHANGED <<detected, expected, lastRet, pre, calls, drained, live_inserts>>
    /\ UNCHANGED <<stateVars, dbVars, remoteVars, buttonVars, syncVars, queue>>
    /\ UNCHANGED <<lifeVars, progVars>>

\* the store of live_count += 1, then last_detection_time and old_state
detect_metal_store ==
    /\ mpc = "store"
    /\ live_count' = m_tmp + 1
    /\ last_detection_time' = 1
    /\ old_state' = 1
    /\ mpc' = "poll"
    /\ detected' = detected + 1
    /\ expected' = expected + 1
    /\ m_tmp' = 0
    /\ UNCHANGED <<counting_paused, last_confirmed_count, unconfirmed_count,
                   pending_upload_count, connection_status, last_sync_time>>
    /\ UNCHANGED <<pin, rose_paused>>
    /\ UNCHANGED <<sensor_events, lastRet, pre, calls, drained, live_inserts>>
    /\ UNCHANGED <<dbVars, remoteVars, buttonVars, syncVars, queue>>
    /\ UNCHANGED <<lifeVars, progVars>>

\* GPIO.input raises inside detect_metal (line 497): nothing is assigned
detect_metal_read_error ==
    /\ mpc = "poll"
    /\ ~counting_paused
    /\ mpc' = "raised"
    /\ UNCHANGED <<m_tmp, old_state, pin, rose_paused>>
    /\ UNCHANGED <<stateVars, dbVars, remoteVars, buttonVars, syncVars, histVars, queue>>
    /\ UNCHANGED <<lifeVars, progVars>>

\* The exception leaves detect_metal; the try around the detection loop in
\* start handles KeyboardInterrupt only, so it leaves the loop and start, and
\* the handler of __main__ calls stop()
start_unwind ==
    /\ mpc = "raised"
    /\ mpc' = "stopped"
    /\ UNCHANGED <<m_tmp, old_state, pin, rose_paused>>
    /\ UNCHANGED <<stateVars, dbVars, remoteVars, buttonVars, syncVars, histVars, queue>>
    /\ UNCHANGED <<lifeVars, progVars>>

MainStep ==
    \/ \E ok \in BOOLEAN : start(ok)
    \/ \E s \in {0, 1} : detect_metal(s)
    \/ detect_metal_store

\* the main thread when the sensor read may fail
MainStepFaulty == MainStep \/ detect_metal_read_error \/ start_unwind

\* ----------------------------------------------------------- button thread
\* SensorSystem.toggle_pause (Button 1)
toggle_pause ==
    /\ bpc = "idle"
    /\ ~released
    /\ counting_paused' = ~counting_paused
    /\ UNCHANGED <<live_count, last_confirmed_count, unconfirmed_count,
                   pending_upload_count, connection_status, last_sync_time,
                   last_detection_time>>
    /\ UNCHANGED <<dbVars, remoteVars, mainVars, buttonVars, syncVars, histVars, queue>>
    /\ UNCHANGED <<lifeVars, progVars>>

\* a reset_count that clears every counter of the screen, not live_count alone
reset_count_all ==
    /\ bpc = "idle"
    /\ ~released
    /\ live_count' = 0
    /\ unconfirmed_count' = 0
    /\ pending_upload_count' = 0
    /\ expected' = expected - live_count
    /\ live_inserts' = 0
    /\ discarded' = discarded + live_count
    /\ UNCHANGED <<counting_paused, last_confirmed_count, connection_status,
                   last_sync_time, last_detection_time>>
    /\ UNCHANGED <<detected, sensor_events, lastRet, pre, calls, drained>>
    /\ UNCHANGED <<dbVars, remoteVars, mainVars, buttonVars, syncVars, queue>>
    /\ UNCHANGED <<running, released, dpc, restarted, progVars>>

\* SensorSystem.reset_count (Button 2); the events reset away are no longer
\* expected in any total
reset_count ==
    /\ bpc = "idle"
    /\ ~released
    /\ live_count' = 0
    /\ expected' = expected - live_count
    /\ live_inserts' = 0
    /\ UNCHANGED <<counting_paused, last_confirmed_count, unconfirmed_count,
                   pending_upload_count, connection_status, last_sync_time,
                   last_detection_time>>
    /\ discarded' = discarded + live_count
    /\ UNCHANGED <<detected, sensor_events, lastRet, pre, calls, drained>>
    /\ UNCHANGED <<dbVars, remoteVars, mainVars, buttonVars, syncVars, queue>>
    /\ UNCHANGED <<running, released, dpc, restarted, progVars>>

\* Button 3: the callback thread enters confirm_count
confirm_count ==
    /\ bpc = "idle"
    /\ ~released
    /\ bpc' = "c_start"
    /\ UNCHANGED <<new_total, b_recs>>
    /\ UNCHANGED <<stateVars, dbVars, remoteVars, mainVars, syncVars, histVars, queue>>
    /\ UNCHANGED <<lifeVars, progVars>>

Snapshot == [live |-> live_count, last |-> last_confirmed_count,
             unconf |-> unconfirmed_count, pend |-> pending_upload_count,
             q |-> queue, conn |-> connection_status]

\* confirm_count_check without the "live_count == 0" early return
confirm_count_check_nozero ==
    /\ bpc = "c_start"
    /\ pre' = Snapshot
    /\ bpc' = IF connection_status = "connected" THEN "c_total" ELSE "c_add"
    /\ lastRet' = "none"
    /\ calls' = {}
    /\ UNCHANGED <<new_total, b_recs>>
    /\ UNCHANGED <<detected, sensor_events, expected, drained, live_inserts>>
    /\ UNCHANGED <<stateVars, dbVars, remoteVars, mainVars, syncVars, queue>>
    /\ UNCHANGED <<lifeVars, progVars>>

\* confirm_count: "if self.state.live_count == 0: return", then the branch on
\* connection_status
confirm_count_check ==
    /\ bpc = "c_start"
    /\ pre' = Snapshot
    /\ IF live_count = 0
       THEN bpc' = "c_done" /\ lastRet' = "noop"
       ELSE /\ bpc' = IF connection_status = "connected" THEN "c_total" ELSE "c_add"
            /\ lastRet' = "none"
    /\ calls' = {}
    /\ UNCHANGED <<new_total, b_recs>>
    /\ UNCHANGED <<detected, sensor_events, expected, drained, live_inserts>>
    /\ UNCHANGED <<stateVars, dbVars, remoteVars, mainVars, syncVars, queue>>
    /\ UNCHANGED <<lifeVars, progVars>>

\* new_total = self.state.total_unconfirmed_count
confirm_count_total ==
    /\ bpc = "c_total"
    /\ new_total' = total_unconfirmed_count
    /\ bpc' = "c_upload"
    /\ UNCHANGED b_recs
    /\ UNCHANGED <<stateVars, dbVars, remoteVars, mainVars, syncVars, histVars, queue>>
    /\ UNCHANGED <<lifeVars, progVars>>

\* confirm_count_upload that zeroes live_count as soon as the row is uploaded
confirm_count_upload_zeroes(r) ==
    /\ bpc = "c_upload"
    /\ calls' = calls \cup {"upload_count_data"}
    /\ AfterQuery(r)
    /\ IF r = "ok"
       THEN /\ remUnconf + live_count <= MaxRemote
            /\ InsertRate(live_count)
            /\ live_count' = 0
            /\ bpc' = "c_confirm"
            /\ lastRet' = lastRet
       ELSE /\ UNCHANGED <<remUnconf, remAtNow, live_count>>
            /\ bpc' = "c_done"
            /\ lastRet' = "upload_failed"
    /\ live_inserts' = IF r = "ok" THEN live_inserts + 1 ELSE live_inserts
    /\ UNCHANGED <<reqCount, headStatus>>
    /\ UNCHANGED <<new_total, b_recs>>
    /\ UNCHANGED <<detected, sensor_events, expected, pre, drained>>
    /\ UNCHANGED <<counting_paused, last_confirmed_count, unconfirmed_count,
                   pending_upload_count, connection_status, last_sync_time,
                   last_detection_time>>
    /\ UNCHANGED <<mainVars, syncVars, queue>>
    /\ UNCHANGED <<lifeVars, progVars>>

\* db_manager.upload_count_data(head_name, self.state.live_count)
confirm_count_upload(r) ==
    /\ bpc = "c_upload"
    /\ calls' = calls \cup {"upload_count_data"}
    /\ AfterQuery(r)
    /\ IF r = "ok"
       THEN /\ remUnconf + live_count <= MaxRemote
            /\ InsertRate(live_count)
            /\ bpc' = "c_confirm"
            /\ lastRet' = lastRet
       ELSE /\ UNCHANGED <<remUnconf, remAtNow>>
            /\ bpc' = "c_done"
            /\ lastRet' = "upload_failed"
    /\ live_inserts' = IF r = "ok" THEN live_inserts + 1 ELSE live_inserts
    /\ UNCHANGED <<reqCount, headStatus>>
    /\ UNCHANGED <<new_total, b_recs>>
    /\ UNCHANGED <<detected, sensor_events, expected, pre, drained>>
    /\ UNCHANGED <<stateVars, mainVars, syncVars, queue>>
    /\ UNCHANGED <<lifeVars, progVars>>

\* DatabaseManager.confirm_counts, first query: UPDATE ... SET reqCount = new_count,
\* lastCountUpdate = now.  Rows stamped with the same instant stay
\* >= lastCountUpdate.
confirm_count_confirm(r) ==
    /\ bpc = "c_confirm"
    /\ calls' = calls \cup {"confirm_counts"}
    /\ AfterQuery(r)
    /\ IF r = "ok"
       THEN /\ reqCount' = new_total
            /\ remUnconf' = remAtNow
            /\ bpc' = "c_status_ok"
       ELSE /\ UNCHANGED <<reqCount, remUnconf>>
            /\ bpc' = "c_status_failed"
    /\ UNCHANGED <<headStatus, remAtNow>>
    /\ UNCHANGED <<new_total, b_recs>>
    /\ UNCHANGED <<detected, sensor_events, expected, lastRet, pre, drained, live_inserts>>
    /\ UNCHANGED <<stateVars, mainVars, syncVars, queue>>
    /\ UNCHANGED <<lifeVars, progVars>>

\* DatabaseManager.confirm_counts, second query (UPDATE headStatus, its result
\* is ignored) and "return result is not None"
confirm_count_status(r) ==
    /\ bpc \in {"c_status_ok", "c_status_failed"}
    /\ AfterQuery(r)
    /\ headStatus' = IF r = "ok"
                     THEN (IF new_total > 0 THEN "ACTIVE" ELSE "INACTIVE")
                     ELSE headStatus
    /\ IF bpc = "c_status_ok"
       THEN bpc' = "c_set_last" /\ lastRet' = lastRet
       ELSE bpc' = "c_done" /\ lastRet' = "confirm_failed"
    /\ UNCHANGED <<reqCount, remUnconf, remAtNow>>
    /\ UNCHANGED <<new_total, b_recs>>
    /\ UNCHANGED <<detected, sensor_events, expected, pre, calls, drained, live_inserts>>
    /\ UNCHANGED <<stateVars, mainVars, syncVars, queue>>
    /\ UNCHANGED <<lifeVars, progVars>>

\* self.state.last_confirmed_count = new_total
confirm_count_set_last ==
    /\ bpc = "c_set_last"
    /\ last_confirmed_count' = new_total
    /\ bpc' = "c_set_unconf"
    /\ UNCHANGED <<live_count, counting_paused, unconfirmed_count,
                   pending_upload_count, connection_status, last_sync_time,
                   last_detection_time>>
    /\ UNCHANGED <<new_total, b_recs>>
    /\ UNCHANGED <<dbVars, remoteVars, mainVars, syncVars, histVars, queue>>
    /\ UNCHANGED <<lifeVars, progVars>>

\* self.state.unconfirmed_count = 0
confirm_count_set_unconf ==
    /\ bpc = "c_set_unconf"
    /\ unconfirmed_count' = 0
    /\ bpc' = "c_set_live"
    /\ UNCHANGED <<live_count, counting_paused, last_confirmed_count,
                   pending_upload_count, connection_status, last_sync_time,
                   last_detection_time>>
    /\ UNCHANGED <<new_total, b_recs>>
    /\ UNCHANGED <<dbVars, remoteVars, mainVars, syncVars, histVars, queue>>
    /\ UNCHANGED <<lifeVars, progVars>>

\* self.state.live_count = 0
confirm_count_set_live ==
    /\ bpc = "c_set_live"
    /\ live_count' = 0
    /\ bpc' = "c_set_pending"
    /\ live_inserts' = 0
    /\ UNCHANGED <<detected, sensor_events, expected, lastRet, pre, calls, drained>>
    /\ UNCHANGED <<counting_paused, last_confirmed_count, unconfirmed_count,
                   pending_upload_count, connection_status, last_sync_time,
                   last_detection_time>>
    /\ UNCHANGED <<new_total, b_recs>>
    /\ UNCHANGED <<dbVars, remoteVars, mainVars, syncVars, queue>>
    /\ UNCHANGED <<lifeVars, progVars>>

\* self.state.pending_upload_count = 0
confirm_count_set_pending ==
    /\ bpc = "c_set_pending"
    /\ pending_upload_count' = 0
    /\ bpc' = "c_getpend"
    /\ UNCHANGED <<live_count, counting_paused, last_confirmed_count,
                   unconfirmed_count, connection_status, last_sync_time,
                   last_detection_time>>
    /\ UNCHANGED <<new_total, b_recs>>
    /\ UNCHANGED <<dbVars, remoteVars, mainVars, syncVars, histVars, queue>>
    /\ UNCHANGED <<lifeVars, progVars>>

\* pending_records = self.offline_manager.get_pending_records()
confirm_count_get_pending(d) ==
    /\ bpc = "c_getpend"
    /\ b_recs' = get_pending_records(d)
    /\ calls' = calls \cup {"get_pending_records"}
    /\ IF b_recs' = <<>>
       THEN bpc' = "c_done" /\ lastRet' = "confirmed"
       ELSE bpc' = "c_mark" /\ lastRet' = lastRet
    /\ UNCHANGED new_total
    /\ UNCHANGED <<detected, sensor_events, expected, pre, drained, live_inserts>>
    /\ UNCHANGED <<stateVars, dbVars, remoteVars, mainVars, syncVars, queue>>
    /\ UNCHANGED <<lifeVars, progVars>>

\* self.offline_manager.mark_uploaded(record_ids)
confirm_count_mark(d) ==
    /\ bpc = "c_mark"
    /\ queue' = mark_uploaded(b_recs, d)
    /\ calls' = calls \cup {"mark_uploaded"}
    /\ bpc' = "c_done"
    /\ lastRet' = "confirmed"
    /\ UNCHANGED <<new_total, b_recs>>
    /\ UNCHANGED <<detected, sensor_events, expected, pre, drained, live_inserts>>
    /\ UNCHANGED <<stateVars, dbVars, remoteVars, mainVars, syncVars>>
    /\ UNCHANGED <<lifeVars, progVars>>

\* offline branch: self.offline_manager.add_count_record(self.state.live_count)
confirm_count_add(d) ==
    /\ bpc = "c_add"
    /\ queue' = add_count_record(live_count, d)
    /\ calls' = calls \cup {"add_count_record"}
    /\ bpc' = "c_gettotal"
    /\ UNCHANGED <<new_total, b_recs>>
    /\ UNCHANGED <<detected, sensor_events, expected, lastRet, pre, drained, live_inserts>>
    /\ UNCHANGED <<stateVars, dbVars, remoteVars, mainVars, syncVars>>
    /\ UNCHANGED <<lifeVars, progVars>>

\* self.state.pending_upload_count = self.offline_manager.get_total_pending_count()
confirm_count_get_total(d) ==
    /\ bpc = "c_gettotal"
    /\ pending_upload_count' = get_total_pending_count(d)
    /\ calls' = calls \cup {"get_total_pending_count"}
    /\ bpc' = "c_zero"
    /\ UNCHANGED <<live_count, counting_paused, last_confirmed_count,
                   unconfirmed_count, connection_status, last_sync_time,
                   last_detection_time>>
    /\ UNCHANGED <<new_total, b_recs>>
    /\ UNCHANGED <<detected, sensor_events, expected, lastRet, pre, drained, live_inserts>>
    /\ UNCHANGED <<dbVars, remoteVars, mainVars, syncVars, queue>>
    /\ UNCHANGED <<lifeVars, progVars>>

\* self.state.live_count = 0
confirm_count_zero ==
    /\ bpc = "c_zero"
    /\ live_count' = 0
    /\ bpc' = "c_done"
    /\ lastRet' = "offline"
    /\ live_inserts' = 0
    /\ UNCHANGED <<counting_paused, last_confirmed_count, unconfirmed_count,
                   pending_upload_count, connection_status, last_sync_time,
                   last_detection_time>>
    /\ UNCHANGED <<new_total, b_recs>>
    /\ UNCHANGED <<detected, sensor_events, expected, pre, calls, drained>>
    /\ UNCHANGED <<dbVars, remoteVars, mainVars, syncVars, queue>>
    /\ UNCHANGED <<lifeVars, progVars>>

\* confirm_count returns to the callback thread
confirm_count_return ==
    /\ bpc = "c_done"
    /\ bpc' = "idle"
    /\ new_total' = 0 /\ b_recs' = <<>>
    /\ lastRet' = "none" /\ pre' = NoPre /\ calls' = {}
    /\ UNCHANGED <<detected, sensor_events, expected, drained, live_inserts>>
    /\ UNCHANGED <<stateVars, dbVars, remoteVars, mainVars, syncVars, queue>>
    /\ UNCHANGED <<lifeVars, progVars>>

ConfirmStep ==
    \/ confirm_count \/ confirm_count_check \/ confirm_count_total
    \/ \E r \in QueryOutcomes : confirm_count_upload(r)
    \/ \E r \in QueryOutcomes : confirm_count_confirm(r)
    \/ \E r \in QueryOutcomes : confirm_count_status(r)
    \/ confirm_count_set_last \/ confirm_count_set_unconf
    \/ confirm_count_set_live \/ confirm_count_set_pending
    \/ \E d \in DiskOutcomes : confirm_count_get_pending(d)
    \/ \E d \in DiskOutcomes : confirm_count_mark(d)
    \/ \E d \in DiskOutcomes : confirm_count_add(d)
    \/ \E d \in DiskOutcomes : confirm_count_get_total(d)
    \/ confirm_count_zero \/ confirm_count_return

ButtonStep == toggle_pause \/ reset_count \/ ConfirmStep

\* ------------------------------------------------------------- sync thread
NoCounts == [confirmed |-> 0, unconfirmed |-> 0]

\* DatabaseManager.is_connected: a connection object exists and answers the ping
is_connected(ping) == connection /\ ping

\* a sync_check that never writes CONNECTED when it finds the connection up
sync_check_no_restore(ping) ==
    /\ spc = "sleep"
    /\ running
    /\ IF is_connected(ping)
       THEN /\ UNCHANGED connection_status
            /\ spc' = "s_get"
       ELSE /\ connection_status' = IF connection_status = "connected"
                                    THEN "reconnecting" ELSE connection_status
            /\ spc' = "s_connect"
    /\ drained' = 0
    /\ UNCHANGED <<live_count, counting_paused, last_confirmed_count,
                   unconfirmed_count, pending_upload_count, last_sync_time,
                   last_detection_time>>
    /\ UNCHANGED <<counts, s_recs, s_i, uploaded_ids>>
    /\ UNCHANGED <<detected, sensor_events, expected, lastRet, pre, calls, live_inserts>>
    /\ UNCHANGED <<dbVars, remoteVars, mainVars, buttonVars, queue>>
    /\ UNCHANGED <<lifeVars, progVars>>

\* _background_sync_loop: "if self.db_manager.is_connected()" and the
\* connection_status assignment of the branch taken
sync_check(ping) ==
    /\ spc = "sleep"
    /\ running
    /\ IF is_connected(ping)
       THEN /\ connection_status' = "connected"
            /\ spc' = "s_get"
       ELSE /\ connection_status' = IF connection_status = "connected"
                                    THEN "reconnecting" ELSE connection_status
            /\ spc' = "s_connect"
    /\ drained' = 0
    /\ UNCHANGED <<live_count, counting_paused, last_confirmed_count,
                   unconfirmed_count, pending_upload_count, last_sync_time,
                   last_detection_time>>
    /\ UNCHANGED <<counts, s_recs, s_i, uploaded_ids>>
    /\ UNCHANGED <<detected, sensor_events, expected, lastRet, pre, calls, live_inserts>>
    /\ UNCHANGED <<dbVars, remoteVars, mainVars, buttonVars, queue>>
    /\ UNCHANGED <<lifeVars, progVars>>

\* a sync_connect that leaves connection_status alone when connect() fails
sync_connect_silent(ok) ==
    /\ spc = "s_connect"
    /\ connection' = ok
    /\ retry_delay' = IF ok THEN INITIAL_RETRY_DELAY ELSE retry_delay
    /\ spc' = "sleep"
    /\ UNCHANGED stateVars
    /\ UNCHANGED <<counts, s_recs, s_i, uploaded_ids>>
    /\ UNCHANGED <<remoteVars, mainVars, buttonVars, histVars, queue>>
    /\ UNCHANGED <<lifeVars, progVars>>

\* sync_connect over a connect() that doubles retry_delay on failure with no
\* ceiling
sync_connect_unbounded(ok) ==
    /\ spc = "s_connect"
    /\ connection' = ok
    /\ retry_delay' = IF ok THEN INITIAL_RETRY_DELAY ELSE 2 * retry_delay
    /\ connection_status' = IF ok THEN connection_status ELSE "disconnected"
    /\ spc' = "sleep"
    /\ UNCHANGED <<live_count, counting_paused, last_confirmed_count,
                   unconfirmed_count, pending_upload_count, last_sync_time,
                   last_detection_time>>
    /\ UNCHANGED <<counts, s_recs, s_i, uploaded_ids>>
    /\ UNCHANGED <<remoteVars, mainVars, buttonVars, histVars, queue>>
    /\ UNCHANGED <<lifeVars, progVars>>

\* "if not self.db_manager.connect(): connection_status = DISCONNECTED", then
\* time.sleep(30)
sync_connect(ok) ==
    /\ spc = "s_connect"
    /\ connection' = ok
    /\ retry_delay' = IF ok THEN INITIAL_RETRY_DELAY ELSE retry_delay
    /\ connection_status' = IF ok THEN connection_status ELSE "disconnected"
    /\ spc' = "sleep"
    /\ UNCHANGED <<live_count, counting_paused, last_confirmed_count,
                   unconfirmed_count, pending_upload_count, last_sync_time,
                   last_detection_time>>
    /\ UNCHANGED <<counts, s_recs, s_i, uploaded_ids>>
    /\ UNCHANGED <<remoteVars, mainVars, buttonVars, histVars, queue>>
    /\ UNCHANGED <<lifeVars, progVars>>

\* DatabaseManager.get_current_counts: r1 and r2 are the outcomes of its two
\* SELECTs (the second runs only when the first returned the row)
get_current_counts(r1, r2) ==
    IF r1 # "ok" THEN NoCounts
    ELSE [confirmed |-> reqCount,
          unconfirmed |-> IF r2 = "ok" THEN remUnconf ELSE 0]

\* counts = self.db_manager.get_current_counts(head_name)
sync_get_counts(r1, r2) ==
    /\ spc = "s_get"
    /\ r1 # "ok" => r2 = r1
    /\ counts' = get_current_counts(r1, r2)
    /\ AfterQuery(r2)
    /\ spc' = "s_set_last"
    /\ UNCHANGED <<s_recs, s_i, uploaded_ids>>
    /\ UNCHANGED <<stateVars, remoteVars, mainVars, buttonVars, histVars, queue>>
    /\ UNCHANGED <<lifeVars, progVars>>

\* self.state.last_confirmed_count = counts['confirmed']
sync_set_last ==
    /\ spc = "s_set_last"
    /\ last_confirmed_count' = counts.confirmed
    /\ spc' = "s_set_unconf"
    /\ UNCHANGED <<live_count, counting_paused, unconfirmed_count,
                   pending_upload_count, connection_status, last_sync_time,
                   last_detection_time>>
    /\ UNCHANGED <<counts, s_recs, s_i, uploaded_ids>>
    /\ UNCHANGED <<dbVars, remoteVars, mainVars, buttonVars, histVars, queue>>
    /\ UNCHANGED <<lifeVars, progVars>>

\* self.state.unconfirmed_count = counts['unconfirmed']
sync_set_unconf ==
    /\ spc = "s_set_unconf"
    /\ unconfirmed_count' = counts.unconfirmed
    /\ spc' = "s_getpend"
    /\ UNCHANGED <<live_count, counting_paused, last_confirmed_count,
                   pending_upload_count, connection_status, last_sync_time,
                   last_detection_time>>
    /\ UNCHANGED <<counts, s_recs, s_i, uploaded_ids>>
    /\ UNCHANGED <<dbVars, remoteVars, mainVars, buttonVars, histVars, queue>>
    /\ UNCHANGED <<lifeVars, progVars>>

\* pending_records = self.offline_manager.get_pending_records(); uploaded_ids = []
sync_get_pending(d) ==
    /\ spc = "s_getpend"
    /\ s_recs' = get_pending_records(d)
    /\ s_i' = 1
    /\ uploaded_ids' = <<>>
    /\ spc' = IF s_recs' = <<>> THEN "s_total" ELSE "s_loop"
    /\ UNCHANGED counts
    /\ UNCHANGED <<stateVars, dbVars, remoteVars, mainVars, buttonVars, histVars,
                   queue>>
    /\ UNCHANGED <<lifeVars, progVars>>

\* where the for loop goes after the record at position s_i: the next record,
\* or "if uploaded_ids: mark_uploaded", or the pending count
\* a drain that writes the uploaded flags only when every record of the tick
\* was uploaded
AfterRecord_all_or_nothing(ids) ==
    IF s_i < Len(s_recs) THEN "s_loop"
    ELSE IF Len(ids) = Len(s_recs) THEN "s_mark" ELSE "s_total"

AfterRecord(ids) ==
    IF s_i < Len(s_recs) THEN "s_loop"
    ELSE IF ids # <<>> THEN "s_mark" ELSE "s_total"

\* one iteration of "for record in pending_records": upload_count_data(record.count),
\* then uploaded_ids.append(db_id) or increment_retry_count(db_id)
sync_upload(r, d) ==
    /\ spc = "s_loop"
    /\ AfterQuery(r)
    /\ LET id == s_recs[s_i] IN
       IF r = "ok"
       THEN /\ d
            /\ remUnconf + queue[id].count <= MaxRemote
            /\ queue[id].inserts < MaxInserts
            /\ InsertRate(queue[id].count)
            /\ uploaded_ids' = Append(uploaded_ids, id)
            /\ queue' = [queue EXCEPT ![id].inserts = @ + 1]
            /\ drained' = drained + queue[id].count
       ELSE /\ queue[id].retry_count < MaxRetry
            /\ queue' = increment_retry_count(id, d)
            /\ UNCHANGED <<remUnconf, remAtNow, uploaded_ids, drained>>
    /\ spc' = AfterRecord(uploaded_ids')
    /\ s_i' = s_i + 1
    /\ UNCHANGED <<reqCount, headStatus>>
    /\ UNCHANGED <<counts, s_recs>>
    /\ UNCHANGED <<detected, sensor_events, expected, lastRet, pre, calls, live_inserts>>
    /\ UNCHANGED <<stateVars, mainVars, buttonVars>>
    /\ UNCHANGED <<lifeVars, progVars>>

\* the same iteration for a record whose upload fails once more after MaxRetry
\* failures: retry counts above MaxRetry are not told apart, the row stays as
\* it is
sync_upload_capped ==
    /\ spc = "s_loop"
    /\ AfterQuery("error")
    /\ queue[s_recs[s_i]].retry_count = MaxRetry
    /\ spc' = AfterRecord(uploaded_ids)
    /\ s_i' = s_i + 1
    /\ UNCHANGED <<counts, s_recs, uploaded_ids>>
    /\ UNCHANGED <<stateVars, remoteVars, mainVars, buttonVars, histVars, queue>>
    /\ UNCHANGED <<lifeVars, progVars>>

\* self.offline_manager.mark_uploaded(uploaded_ids)
sync_mark(d) ==
    /\ spc = "s_mark"
    /\ queue' = mark_uploaded(uploaded_ids, d)
    /\ spc' = "s_total"
    /\ UNCHANGED <<counts, s_recs, s_i, uploaded_ids>>
    /\ UNCHANGED <<stateVars, dbVars, remoteVars, mainVars, buttonVars, histVars>>
    /\ UNCHANGED <<lifeVars, progVars>>

\* a sync_get_total that keeps the pending_upload_count of before the drain
sync_get_total_stale(d) ==
    /\ spc = "s_total"
    /\ spc' = "s_time"
    /\ UNCHANGED stateVars
    /\ UNCHANGED <<counts, s_recs, s_i, uploaded_ids>>
    /\ UNCHANGED <<dbVars, remoteVars, mainVars, buttonVars, histVars, queue>>
    /\ UNCHANGED <<lifeVars, progVars>>

\* self.state.pending_upload_count = self.offline_manager.get_total_pending_count()
sync_get_total(d) ==
    /\ spc = "s_total"
    /\ pending_upload_count' = get_total_pending_count(d)
    /\ spc' = "s_time"
    /\ UNCHANGED <<live_count, counting_paused, last_confirmed_count,
                   unconfirmed_count, connection_status, last_sync_time,
                   last_detection_time>>
    /\ UNCHANGED <<counts, s_recs, s_i, uploaded_ids>>
    /\ UNCHANGED <<dbVars, remoteVars, mainVars, buttonVars, histVars, queue>>
    /\ UNCHANGED <<lifeVars, progVars>>

\* self.state.last_sync_time = datetime.datetime.now()
sync_set_time ==
    /\ spc = "s_time"
    /\ last_sync_time' = 1
    /\ spc' = "s_done"
    /\ UNCHANGED <<live_count, counting_paused, last_confirmed_count,
                   unconfirmed_count, pending_upload_count, connection_status,
                   last_detection_time>>
    /\ UNCHANGED <<counts, s_recs, s_i, uploaded_ids>>
    /\ UNCHANGED <<dbVars, remoteVars, mainVars, buttonVars, histVars, queue>>
    /\ UNCHANGED <<lifeVars, progVars>>

\* time.sleep(30): the locals of the loop body die
sync_sleep ==
    /\ spc = "s_done"
    /\ spc' = "sleep"
    /\ counts' = NoCounts /\ s_recs' = <<>> /\ s_i' = 1 /\ uploaded_ids' = <<>>
    /\ drained' = 0
    /\ UNCHANGED <<detected, sensor_events, expected, lastRet, pre, calls, live_inserts>>
    /\ UNCHANGED <<stateVars, dbVars, remoteVars, mainVars, buttonVars, queue>>
    /\ UNCHANGED <<lifeVars, progVars>>

SyncStep ==
    \/ \E ping \in BOOLEAN : sync_check(ping)
    \/ \E ok \in BOOLEAN : sync_connect(ok)
    \/ \E r1, r2 \in QueryOutcomes : sync_get_counts(r1, r2)
    \/ sync_set_last \/ sync_set_unconf
    \/ \E d \in DiskOutcomes : sync_get_pending(d)
    \/ \E r \in QueryOutcomes, d \in DiskOutcomes : sync_upload(r, d)
    \/ \E d \in DiskOutcomes : sync_mark(d)
    \/ \E d \in DiskOutcomes : sync_get_total(d)
    \/ sync_set_time \/ sync_sleep

\* An exception that no callee handles leaves the try body of the loop: the
\* except branch sets connection_status to ERROR and the thread goes to sleep
sync_raise ==
    /\ spc \notin {"sleep", "s_done", "exited"}
    /\ connection_status' = "error"
    /\ spc' = "s_done"
    /\ UNCHANGED <<live_count, counting_paused, last_confirmed_count,
                   unconfirmed_count, pending_upload_count, last_sync_time,
                   last_detection_time>>
    /\ UNCHANGED <<counts, s_recs, s_i, uploaded_ids>>
    /\ UNCHANGED <<dbVars, remoteVars, mainVars, buttonVars, histVars, queue>>
    /\ UNCHANGED <<lifeVars, progVars>>

\* "while self.running" of _background_sync_loop finds running False: the
\* thread ends
sync_exit ==
    /\ spc = "sleep"
    /\ ~running
    /\ spc' = "exited"
    /\ UNCHANGED <<counts, s_recs, s_i, uploaded_ids>>
    /\ UNCHANGED <<stateVars, dbVars, remoteVars, mainVars, buttonVars, histVars, queue>>
    /\ UNCHANGED <<running, released, dpc, restarted, discarded, progVars>>

\* ---------------------------------------------------------- display thread
\* a render_screen that clears the detection mark once it has shown it
render_screen_clearing ==
    /\ dpc = "render"
    /\ running
    /\ dpc' = "wait"
    /\ last_detection_time' = 0
    /\ UNCHANGED <<live_count, counting_paused, last_confirmed_count,
                   unconfirmed_count, pending_upload_count, connection_status,
                   last_sync_time>>
    /\ UNCHANGED <<dbVars, remoteVars, mainVars, buttonVars, syncVars,
                   histVars, queue>>
    /\ UNCHANGED <<running, released, restarted, discarded, progVars>>

\* _display_update_loop: one render_screen call; the _render_* methods print
\* fields of SystemState and assign nothing.  Whether the call returns or
\* raises, the thread sleeps next.
render_screen ==
    /\ dpc = "render"
    /\ running
    /\ dpc' = "wait"
    /\ UNCHANGED <<stateVars, dbVars, remoteVars, mainVars, buttonVars, syncVars,
                   histVars, queue>>
    /\ UNCHANGED <<running, released, restarted, discarded, progVars>>

\* time.sleep(1), or time.sleep(5) in the except branch
display_sleep ==
    /\ dpc = "wait"
    /\ dpc' = "render"
    /\ UNCHANGED <<stateVars, dbVars, remoteVars, mainVars, buttonVars, syncVars,
                   histVars, queue>>
    /\ UNCHANGED <<running, released, restarted, discarded, progVars>>

\* "while self.running" of _display_update_loop finds running False
display_exit ==
    /\ dpc = "render"
    /\ ~running
    /\ dpc' = "exited"
    /\ UNCHANGED <<stateVars, dbVars, remoteVars, mainVars, buttonVars, syncVars,
                   histVars, queue>>
    /\ UNCHANGED <<running, released, restarted, discarded, progVars>>

DisplayStep == render_screen \/ display_sleep \/ display_exit

\* ----------------------------------------------------------------- shutdown
\* KeyboardInterrupt reaches the detection loop of start: its handler calls
\* stop()
interrupt ==
    /\ mpc = "poll"
    /\ mpc' = "stop"
    /\ UNCHANGED <<m_tmp, old_state, pin, rose_paused>>
    /\ UNCHANGED <<stateVars, dbVars, remoteVars, buttonVars, syncVars, histVars, queue>>
    /\ UNCHANGED <<lifeVars, progVars>>

\* SensorSystem.stop: self.running = False
stop ==
    /\ mpc = "stop"
    /\ running' = FALSE
    /\ mpc' = "join_sync"
    /\ UNCHANGED <<m_tmp, old_state, pin, rose_paused>>
    /\ UNCHANGED <<stateVars, dbVars, remoteVars, buttonVars, syncVars, histVars, queue>>
    /\ UNCHANGED <<released, dpc, restarted, discarded, progVars>>

\* self.sync_thread.join() returns once the sync thread has ended
stop_join_sync ==
    /\ mpc = "join_sync"
    /\ spc = "exited"
    /\ mpc' = "join_display"
    /\ UNCHANGED <<m_tmp, old_state, pin, rose_paused>>
    /\ UNCHANGED <<stateVars, dbVars, remoteVars, buttonVars, syncVars, histVars, queue>>
    /\ UNCHANGED <<lifeVars, progVars>>

\* self.display_thread.join()
stop_join_display ==
    /\ mpc = "join_display"
    /\ dpc = "exited"
    /\ mpc' = "cleanup"
    /\ UNCHANGED <<m_tmp, old_state, pin, rose_paused>>
    /\ UNCHANGED <<stateVars, dbVars, remoteVars, buttonVars, syncVars, histVars, queue>>
    /\ UNCHANGED <<lifeVars, progVars>>

\* GPIO.cleanup(): the edge detection of the buttons is removed, no callback
\* is started after it; stop waits for no callback that is already running
stop_cleanup ==
    /\ mpc = "cleanup"
    /\ released' = TRUE
    /\ mpc' = "halted"
    /\ UNCHANGED <<m_tmp, old_state, pin, rose_paused>>
    /\ UNCHANGED <<stateVars, dbVars, remoteVars, buttonVars, syncVars, histVars, queue>>
    /\ UNCHANGED <<running, dpc, restarted, discarded, progVars>>

StopStep == interrupt \/ stop \/ stop_join_sync \/ stop_join_display \/ stop_cleanup

\* The process is killed at any point and started again: SensorSystem.__init__
\* builds a new SystemState and new threads, the offline_counts table and the
\* remote store keep what they held
crash_restart ==
    /\ ~restarted
    /\ restarted' = TRUE
    /\ live_count' = 0 /\ counting_paused' = FALSE
    /\ last_confirmed_count' = 0 /\ unconfirmed_count' = 0
    /\ pending_upload_count' = 0
    /\ connection_status' = "disconnected"
    /\ last_sync_time' = 0 /\ last_detection_time' = 0
    /\ old_state' = SENTINEL
    /\ connection' = FALSE /\ retry_delay' = INITIAL_RETRY_DELAY
    /\ mpc' = "start" /\ m_tmp' = 0
    /\ pin' = SENTINEL /\ rose_paused' = FALSE
    /\ bpc' = "idle" /\ new_total' = 0 /\ b_recs' = <<>>
    /\ spc' = "sleep" /\ counts' = NoCounts
    /\ s_recs' = <<>> /\ s_i' = 1 /\ uploaded_ids' = <<>>
    /\ expected' = expected - live_count
    /\ lastRet' = "none" /\ pre' = NoPre /\ calls' = {} /\ drained' = 0
    /\ live_inserts' = 0
    /\ running' = TRUE /\ released' = FALSE /\ dpc' = "render"
    /\ UNCHANGED <<detected, sensor_events, discarded, progVars>>
    /\ UNCHANGED <<remoteVars, queue>>

\* ---------------------------------------------------------- specifications
\* A thread is between handlers
MainIdle == mpc \in {"start", "poll"}
ButtonIdle == bpc = "idle"
SyncIdle == spc = "sleep"

\* confirm_count when every remote and local call it makes succeeds
ConfirmStepHealthy ==
    \/ confirm_count \/ confirm_count_check \/ confirm_count_total
    \/ confirm_count_upload("ok")
    \/ confirm_count_confirm("ok")
    \/ confirm_count_status("ok")
    \/ confirm_count_set_last \/ confirm_count_set_unconf
    \/ confirm_count_set_live \/ confirm_count_set_pending
    \/ confirm_count_get_pending(TRUE)
    \/ confirm_count_mark(TRUE)
    \/ confirm_count_add(TRUE)
    \/ confirm_count_get_total(TRUE)
    \/ confirm_count_zero \/ confirm_count_return

\* The sync loop when every remote and local call of its body succeeds (the
\* connection itself may still be lost or refused)
SyncStepHealthy ==
    \/ \E ping \in BOOLEAN : sync_check(ping)
    \/ \E ok \in BOOLEAN : sync_connect(ok)
    \/ sync_get_counts("ok", "ok")
    \/ sync_set_last \/ sync_set_unconf
    \/ sync_get_pending(TRUE)
    \/ sync_upload("ok", TRUE)
    \/ sync_mark(TRUE)
    \/ sync_get_total(TRUE)
    \/ sync_set_time \/ sync_sleep

\* The process starts on an empty offline_counts table
InitFresh == Init /\ queue = <<>>

\* The sensor and the operator's pause and reset buttons alone
NextSensor == MainStepFaulty \/ PinChange \/ toggle_pause \/ reset_count

SpecSensor == Init /\ [][NextSensor]_vars

\* confirm_count with every outcome of its calls, run to completion between
\* detections and sync ticks whose calls succeed
NextConfirm ==
    \/ ClockTick
    \/ ButtonIdle /\ SyncIdle /\ MainStep
    \/ MainIdle /\ SyncIdle /\ ConfirmStep
    \/ MainIdle /\ ButtonIdle /\ SyncStepHealthy

SpecConfirm == Init /\ [][NextConfirm]_vars

\* The same steps from a start where the remote store holds the head as
\* INACTIVE and the local queue is empty
InitIdleHead == InitWith("INACTIVE") /\ queue = <<>>

SpecRemote == InitIdleHead /\ [][NextConfirm]_vars

\* The sync loop with every outcome of its calls, run to completion between
\* detections and confirmations whose calls succeed
NextSync ==
    \/ ClockTick
    \/ ButtonIdle /\ SyncIdle /\ MainStep
    \/ MainIdle /\ SyncIdle /\ ConfirmStepHealthy
    \/ MainIdle /\ ButtonIdle /\ SyncStep

SpecSync == InitFresh /\ [][NextSync]_vars

\* The connection handling alone: detections and sync ticks with every outcome
\* of their calls, no button pressed
NextConnect ==
    \/ ClockTick
    \/ SyncIdle /\ MainStep
    \/ MainIdle /\ SyncStep

SpecConnect == Init /\ [][NextConnect]_vars

\* The three threads interleave at every step (the code takes no lock); the
\* calls succeed, the connection may be lost
Next == ClockTick \/ MainStep \/ ConfirmStepHealthy \/ SyncStepHealthy

Spec == InitFresh /\ [][Next]_vars

\* The sync loop and the detection loop, each run to completion, when every
\* call succeeds; the process may be killed between any two steps and started
\* again
NextCrash ==
    \/ ClockTick
    \/ SyncIdle /\ MainStep
    \/ MainIdle /\ SyncStepHealthy
    \/ crash_restart

SpecCrash == Init /\ [][NextCrash]_vars

\* Every handler run to completion and every call succeeding: the detection
\* loop, the three buttons and the sync loop
NextButtons ==
    \/ ClockTick
    \/ ButtonIdle /\ SyncIdle /\ MainStep
    \/ MainIdle /\ SyncIdle /\ (ConfirmStepHealthy \/ toggle_pause \/ reset_count)
    \/ MainIdle /\ ButtonIdle /\ SyncStepHealthy

SpecButtons == InitFresh /\ [][NextButtons]_vars

\* Shutdown: KeyboardInterrupt may reach the detection loop at any time, stop()
\* then runs on the main thread while the callback thread, the sync thread and
\* the display thread go on.  Outside the shutdown the handlers run to
\* completion and every call succeeds.
MainQuiet == mpc # "store"
SyncQuiet == spc \in {"sleep", "exited"}

MainLoopStep == ButtonIdle /\ SyncIdle /\ MainStep
CallbackStep == MainQuiet /\ SyncQuiet /\ ConfirmStepHealthy
SyncLoopStep == (MainQuiet /\ ButtonIdle /\ SyncStepHealthy) \/ sync_exit

NextShutdown ==
    \/ ClockTick
    \/ MainLoopStep
    \/ StopStep
    \/ CallbackStep
    \/ SyncLoopStep
    \/ DisplayStep

\* The scheduler runs every thread that can step, and every call returns
FairShutdown ==
    /\ WF_vars(MainLoopStep)
    /\ WF_vars(stop \/ stop_join_sync \/ stop_join_display \/ stop_cleanup)
    /\ WF_vars(CallbackStep /\ bpc # "idle")
    /\ WF_vars(SyncLoopStep)
    /\ WF_vars(DisplayStep)

SpecShutdown == InitFresh /\ [][NextShutdown]_vars /\ FairShutdown

\* The sync loop when any upload_count_data call of its drain may fail
SyncStepUploads ==
    \/ SyncStepHealthy
    \/ \E r \in QueryOutcomes, d \in DiskOutcomes : sync_upload(r, d)

\* Every writer and reader of offline_counts: confirm_count offline and
\* connected, and the drain with uploads that fail
NextQueue ==
    \/ ButtonIdle /\ SyncIdle /\ MainStep
    \/ MainIdle /\ SyncIdle /\ ConfirmStepHealthy
    \/ MainIdle /\ ButtonIdle /\ SyncStepUploads

SpecQueue == Init /\ [][NextQueue]_vars

\* The drain under a connection that stays up: two records wait in
\* offline_counts from an earlier run, the local store works, and each
\* upload_count_data call succeeds or fails
InitDrain == InitState("ACTIVE", <<CountRecord(1), CountRecord(1)>>)

SyncStepDrain ==
    \/ sync_check(TRUE)
    \/ sync_connect(TRUE)
    \/ sync_get_counts("ok", "ok")
    \/ sync_set_last \/ sync_set_unconf
    \/ sync_get_pending(TRUE)
    \/ \E r \in {"ok", "error"} : sync_upload(r, TRUE)
    \/ sync_upload_capped
    \/ sync_mark(TRUE)
    \/ sync_get_total(TRUE)
    \/ sync_set_time \/ sync_sleep

NextDrain == ClockTick \/ SyncStepDrain

\* the upload_count_data call of the drain for queue record i succeeds
upload_succeeds(i) ==
    /\ spc = "s_loop"
    /\ s_recs[s_i] = i
    /\ sync_upload("ok", TRUE)

\* The sync thread is scheduled again and again (threading.Thread, sleep(30))
SpecDrain == InitDrain /\ [][NextDrain]_vars /\ WF_vars(SyncStepDrain)

\* A tick may run while the callback thread stands at the return of a
\* finished confirm_count; no sensor event is taken before that return.
\* Every call succeeds.
NextRecount ==
    \/ ClockTick
    \/ ButtonIdle /\ SyncIdle /\ MainStep
    \/ MainIdle /\ SyncIdle /\ ConfirmStepHealthy
    \/ MainIdle /\ bpc \in {"idle", "c_done"} /\ SyncStepHealthy

SpecRecount == InitFresh /\ [][NextRecount]_vars

\* The connection: start and the sync loop, where the server may be out of
\* reach at any connect or ping and the loop body may raise; every query on an
\* open connection succeeds
SyncLoopConnects == MainIdle /\ SyncStepHealthy

NextReach ==
    \/ ClockTick
    \/ SyncIdle /\ (\E ok \in BOOLEAN : start(ok))
    \/ SyncLoopConnects
    \/ sync_raise

\* a connect or a ping finds the remote store out of reach
StoreFails ==
    \/ start(FALSE)
    \/ connection /\ sync_check(FALSE)
    \/ sync_connect(FALSE)

\* The sync thread is scheduled again and again (threading.Thread, sleep(30))
SpecReach == Init /\ [][NextReach]_vars /\ WF_vars(SyncLoopConnects)

\* ===================================================== sensor_counter_v2.py
sensorSystemVars == <<stateVars, dbVars, remoteVars, mainVars, buttonVars,
                      syncVars, histVars, queue, lifeVars>>

\* handle_button_press, navigation and sensor part: LEFT and RIGHT move between
\* the screens, SENSOR counts while counting is active
navigate(c, btn) ==
    IF btn = "LEFT"
    THEN [c EXCEPT !.current_screen = IF @ = 3 THEN 0 ELSE (@ - 1) % 3]
    ELSE IF btn = "RIGHT"
    THEN IF c.current_screen < 3
         THEN [c EXCEPT !.current_screen = (@ + 1) % 3]
         ELSE c
    ELSE IF btn = "SENSOR" /\ c.counting_active
    THEN [c EXCEPT !.live_count = @ + 1, !.unconfirmed_total = @ + 1]
    ELSE c

Max(a, b) == IF a >= b THEN a ELSE b

\* A main screen whose DOWN lowers live_count alone
main_screen_live_only(c, btn) ==
    IF btn = "UP"
    THEN [c EXCEPT !.live_count = @ + 1, !.unconfirmed_total = @ + 1]
    ELSE IF btn = "DOWN"
    THEN [c EXCEPT !.live_count = Max(0, @ - 1)]
    ELSE IF btn = "KEY1"
    THEN [c EXCEPT !.counting_active = ~@]
    ELSE IF btn = "KEY2"
    THEN [c EXCEPT !.unconfirmed_total = 0]
    ELSE IF btn = "KEY3"
    THEN [c EXCEPT !.live_count = 0, !.unconfirmed_total = 0]
    ELSE c

\* handle_button_press, the controls of the main screen
main_screen(c, btn) ==
    IF btn = "UP"
    THEN [c EXCEPT !.live_count = @ + 1, !.unconfirmed_total = @ + 1]
    ELSE IF btn = "DOWN"
    THEN [c EXCEPT !.live_count = Max(0, @ - 1),
                   !.unconfirmed_total = Max(0, @ - 1)]
    ELSE IF btn = "KEY1"
    THEN [c EXCEPT !.counting_active = ~@]
    ELSE IF btn = "KEY2"
    THEN [c EXCEPT !.unconfirmed_total = 0]
    ELSE IF btn = "KEY3"
    THEN [c EXCEPT !.live_count = 0, !.unconfirmed_total = 0]
    ELSE c

\* handle_button_press, the controls of the settings screen
settings_screen(c, btn) ==
    IF btn = "KEY1"
    THEN LET st == Statuses[(StatusIndex(c.connection_status) % 3) + 1]
         IN [c EXCEPT !.connection_status = st, !.db_connected = (st = "ONLINE")]
    ELSE c

\* handle_button_press as a whole; the screen is tested after the navigation.
\* Its return value is dropped by poll_buttons and is not modelled.
handle_button_press(c, btn) ==
    LET n == navigate(c, btn)
    IN IF n.current_screen = 0 THEN main_screen(n, btn)
       ELSE IF n.current_screen = 1 THEN settings_screen(n, btn)
       ELSE n

NextPin == IF c_i = Len(PinOrder) THEN 1 ELSE c_i + 1

\* One pass of the loop of poll_buttons whose GPIO.input returns level v
poll_read(v) ==
    LET name == PinOrder[c_i]
        previous_state == counter.button_states[name]
        after == IF previous_state = 1 /\ v = 0
                 THEN handle_button_press(counter, name)
                 ELSE counter
    IN /\ after.live_count <= MaxCount
       /\ counter' = [after EXCEPT !.button_states[name] = v]
       /\ c_i' = NextPin
       /\ seen' = IF name = "SENSOR" THEN v ELSE seen
       /\ UNCHANGED <<legacy, lhist, sensorSystemVars>>

\* One pass of the loop of poll_buttons whose GPIO.input raises
poll_read_fails ==
    /\ c_i' = NextPin
    /\ UNCHANGED <<counter, seen, legacy, lhist, sensorSystemVars>>

\* SensorCounter after construction: every pin was read once, or its read failed
InitCounter ==
    /\ InitSensorSystem("ACTIVE", <<>>)
    /\ \E reads \in [PinNames -> Reads] :
          /\ counter = SensorCounter(reads)
          /\ seen = reads["SENSOR"]
    /\ c_i = 1
    /\ legacy = LegacyStart /\ lhist = LegacyHistStart

NextCounter == (\E v \in Levels : poll_read(v)) \/ poll_read_fails

SpecCounter == InitCounter /\ [][NextCounter]_vars

\* ============================================================ smartSensor.py
\* detectMetal when GPIO.input returns newState (GPIOpin is 17, never -1)
detectMetal(newState) ==
    /\ legacy.pc = "detect"
    /\ newState = 1 /\ newState # legacy.oldState => legacy.count < MaxCount
    /\ legacy' = [legacy EXCEPT
                    !.count = IF newState # legacy.oldState /\ newState = 1
                              THEN @ + 1 ELSE @,
                    !.oldState = newState,
                    !.pc = "pending"]
    /\ lhist' = [lhist EXCEPT
                    !.sample = newState,
                    !.edges = IF lhist.sample = 0 /\ newState = 1
                              THEN @ + 1 ELSE @]
    /\ UNCHANGED <<counter, c_i, seen, sensorSystemVars>>

\* schedule.run_pending() before the minute is over
run_pending_idle ==
    /\ legacy.pc = "pending"
    /\ legacy' = [legacy EXCEPT !.pc = "detect"]
    /\ UNCHANGED <<lhist, counter, c_i, seen, sensorSystemVars>>

\* schedule.run_pending() runs sendData, which inserts the row and clears count
sendData ==
    /\ legacy.pc = "pending"
    /\ legacy' = [legacy EXCEPT !.count = 0, !.pc = "detect"]
    /\ lhist' = [lhist EXCEPT !.sent = TRUE, !.studCount = legacy.count,
                              !.sent_edges = lhist.edges, !.edges = 0]
    /\ UNCHANGED <<counter, c_i, seen, sensorSystemVars>>

\* sendData raises (connect, execute or commit): nothing catches it, the
\* program ends
sendData_raises ==
    /\ legacy.pc = "pending"
    /\ legacy' = [legacy EXCEPT !.pc = "ended"]
    /\ UNCHANGED <<lhist, counter, c_i, seen, sensorSystemVars>>

InitLegacy == InitSensorSystem("ACTIVE", <<>>) /\ ProgramsIdle

NextLegacy ==
    \/ \E newState \in Levels : detectMetal(newState)
    \/ run_pending_idle
    \/ sendData
    \/ sendData_raises

SpecLegacy == InitLegacy /\ [][NextLegacy]_vars

\* ------------------------------------------------------------------ claims
Quiescent == MainIdle /\ ButtonIdle /\ SyncIdle

\* The counts the system holds: live, queued locally and not uploaded, in the
\* remote event log since the last confirmation, and the remote confirmed total
Accounted == live_count + PendingSum(queue) + remUnconf + reqCount

SameFlags(q1, q2) ==
    /\ Len(q1) = Len(q2)
    /\ \A i \in 1..Len(q1) : q1[i].uploaded = q2[i].uploaded

RemoteCalls == {"upload_count_data", "confirm_counts", "connect"}

\* C1: count conservation.  Whenever no handler is running, every event that
\* incremented live_count is held exactly once in live_count + the unuploaded
\* queue rows + the remote event log since the last confirmation + the remote
\* confirmed total (no reset_count runs under Spec).
C1_Conservation == Quiescent => Accounted = expected

\* C2: while counting, live_count grows by exactly the number of sensor events,
\* the low-to-high transitions between consecutive samples.
C2_CountsEvents == mpc # "store" => detected = sensor_events

\* C3: confirm_count entered with live_count = 0 returns without changing any
\* field of SystemState, the connection, the local queue or the remote store,
\* and without making a remote or local-store call.
C3_ZeroIsNoOp ==
    [][ ( /\ \/ bpc = "c_start" /\ live_count = 0
             \/ bpc = "c_done" /\ lastRet = "noop"
          /\ bpc' # bpc )
        => ( /\ bpc' \in {"c_done", "idle"}
             /\ calls' = {}
             /\ UNCHANGED <<stateVars, dbVars, remoteVars, queue>> ) ]_vars

C3_Witness ==
    /\ bpc = "c_done" /\ lastRet = "noop"
    /\ connection_status = "connected"
    /\ PendingSum(queue) > 0

\* C4: a connected confirm_count whose two remote calls succeed sets the remote
\* confirmed total to the sum of the four counters as they were at the call,
\* leaves live, unconfirmed and pending at 0 and last_confirmed at the new
\* total, and every row that was pending in the queue is marked uploaded.
C4_ConfirmFolds ==
    (bpc = "c_done" /\ lastRet = "confirmed") =>
        /\ reqCount = pre.last + pre.unconf + pre.live + pre.pend
        /\ last_confirmed_count = reqCount
        /\ live_count = 0 /\ unconfirmed_count = 0 /\ pending_upload_count = 0
        /\ \A i \in 1..Len(pre.q) : queue[i].uploaded

\* C5: a connected confirm_count that fails at upload_count_data or at
\* confirm_counts returns with live_count, last_confirmed_count,
\* unconfirmed_count, pending_upload_count and every row's uploaded flag as
\* they were at the call.
C5_FailureKeepsLocalState ==
    (bpc = "c_done" /\ lastRet \in {"upload_failed", "confirm_failed"}) =>
        /\ live_count = pre.live
        /\ last_confirmed_count = pre.last
        /\ unconfirmed_count = pre.unconf
        /\ pending_upload_count = pre.pend
        /\ SameFlags(queue, pre.q)

C5_Witness ==
    /\ bpc = "c_done" /\ lastRet = "confirm_failed"
    /\ "upload_count_data" \in calls
    /\ pre.live > 0 /\ pre.last > 0
    /\ PendingSum(queue) > 0

\* C6: over a confirm_count that failed at confirm_counts and its retry, the
\* live count is inserted into the remote event log only once.
C6_RetryInsertsOnce == live_inserts <= 1

\* C7: an offline confirm_count of k > 0 appends exactly one unuploaded row of
\* count k, zeroes live_count, leaves pending_upload_count at the sum of the
\* unuploaded rows and makes no remote call.
C7_OfflineQueues ==
    (bpc = "c_done" /\ lastRet = "offline") =>
        /\ queue = Append(pre.q, CountRecord(pre.live))
        /\ live_count = 0
        /\ pending_upload_count = PendingSum(queue)
        /\ calls \cap RemoteCalls = {}

\* C8: when add_count_record fails in an offline confirm_count, live_count is
\* retained, so live_count + the pending rows is what it was at the call.
C8_WriteFailureKeepsCount ==
    (bpc = "c_done" /\ lastRet = "offline" /\ queue = pre.q) =>
        /\ live_count = pre.live
        /\ live_count + PendingSum(queue) = pre.live + PendingSum(pre.q)

\* C9: a row queued while disconnected is inserted into the remote event log by
\* the sync loop at most once, over any number of ticks.
C9_UploadedAtMostOnce == \A i \in 1..Len(queue) : queue[i].inserts <= 1

\* C10: at the end of a connected tick that drained the whole queue,
\* pending_upload_count is 0 and unconfirmed_count has grown by the drained sum
\* over the value the tick fetched.
C10_DrainReflected ==
    (spc = "s_done" /\ drained > 0 /\ Len(uploaded_ids) = Len(s_recs)) =>
        /\ pending_upload_count = 0
        /\ unconfirmed_count = counts.unconfirmed + drained

\* C11: whenever neither confirm_count nor a sync tick is running,
\* pending_upload_count is the sum of count over the queue rows that are not
\* marked uploaded (also right after start with rows of an earlier run).
C11_PendingMatchesQueue ==
    (ButtonIdle /\ SyncIdle) => pending_upload_count = PendingSum(queue)

\* the button thread is between confirm_count's first read of the counters and
\* its last assignment
InConfirmSection == bpc \notin {"idle", "c_start", "c_done"}

\* the sync thread is between get_pending_records and the recompute of
\* pending_upload_count
InDrainPhase == spc \in {"s_getpend", "s_loop", "s_mark", "s_total"}

\* C12: the button thread is never inside confirm_count's state-changing
\* section while the sync thread is inside the drain/reset phase of a tick.
C12_MutualExclusion == ~(InConfirmSection /\ InDrainPhase)

\* C13: as long as no sample has been stored in old_state (it still holds the
\* initial value), no step changes live_count: the first sample only seeds
\* old_state.
C13_FirstSampleSeeds == [][old_state = SENTINEL => live_count' = live_count]_vars

\* C14: while counting is paused no sample starts an increment, and a sample
\* that starts an increment never reads a rise of the input that happened
\* while counting was paused.
C14_PausedEventsDiscarded ==
    [][ (mpc = "poll" /\ mpc' = "store") => (~counting_paused /\ ~rose_paused) ]_vars

\* C15: after a sensor read has failed the detection loop polls again, with
\* live_count and old_state as they were.
C15_ReadFailureSwallowed ==
    [][ (mpc = "raised" /\ mpc' # mpc)
        => (mpc' = "poll" /\ UNCHANGED <<live_count, old_state>>) ]_vars

\* a step in which DatabaseManager.connect returns ok: in start, in the
\* reconnect branch of the sync loop, or inside execute_query (the only places
\* that assign self.connection)
ConnectReturned(ok) ==
    \/ mpc = "start" /\ mpc' = "poll" /\ connection' = ok
    \/ spc = "s_connect" /\ spc' = "sleep" /\ connection' = ok
    \/ connection # ok /\ connection' = ok

MinOf(a, b) == IF a <= b THEN a ELSE b

\* C16: every failed connect() doubles retry_delay up to the ceiling of 300, so
\* from 30 it is min(30 * 2^k, 300) after k consecutive failures.
C16_BackoffDoubles ==
    [][ ConnectReturned(FALSE)
        => retry_delay' = MinOf(2 * retry_delay, MAX_RETRY_DELAY) ]_vars

\* C17: retry_delay is always between 30 and 300, does not decrease over a
\* failed connect(), and is 30 right after a successful connect().
C17_BackoffBounded ==
    /\ [](INITIAL_RETRY_DELAY <= retry_delay /\ retry_delay <= MAX_RETRY_DELAY)
    /\ [][ /\ ConnectReturned(FALSE) => retry_delay' >= retry_delay
           /\ ConnectReturned(TRUE) => retry_delay' = INITIAL_RETRY_DELAY ]_vars

C17_Witness ==
    /\ spc = "sleep" /\ ~connection
    /\ connection_status = "disconnected" /\ last_sync_time = 1
    /\ retry_delay = INITIAL_RETRY_DELAY

\* C18: connection_status never goes from DISCONNECTED or ERROR straight to
\* CONNECTED; it passes through RECONNECTING.
C18_ConnectsThroughConnecting ==
    [][ (connection_status \in {"disconnected", "error"})
        => (connection_status' # "connected") ]_vars

\* C19: when confirm_counts returns True the remote store holds the new total
\* and the status that goes with it, and when it returns False the remote
\* store is as it was before the call.
C19_ConfirmCountsAtomic ==
    [][ /\ (bpc = "c_status_ok" /\ bpc' # bpc)
           => /\ reqCount' = new_total
              /\ headStatus' = IF new_total > 0 THEN "ACTIVE" ELSE "INACTIVE"
        /\ (bpc = "c_status_failed" /\ bpc' # bpc)
           => UNCHANGED <<reqCount, headStatus, remUnconf>> ]_vars

\* C20: a sync tick assigns to each counter either the value the stores hold
\* or, when the read failed, the value the counter already had.
C20_NoErrorZeroes ==
    [][ /\ (spc = "s_set_last" /\ spc' # spc)
           => last_confirmed_count' \in {last_confirmed_count, reqCount}
        /\ (spc = "s_set_unconf" /\ spc' # spc)
           => unconfirmed_count' \in {unconfirmed_count, remUnconf}
        /\ (spc = "s_total" /\ spc' # spc)
           => pending_upload_count' \in {pending_upload_count, PendingSum(queue)} ]_vars

\* C21: after the process was killed during a drain and started again, every
\* queue record is flagged uploaded exactly when its count was inserted in the
\* remote store, so no record is inserted a second time.
C21_CrashConsistent ==
    (restarted /\ SyncIdle)
        => \A i \in 1..Len(queue) :
              /\ queue[i].uploaded <=> (queue[i].inserts > 0)
              /\ queue[i].inserts <= 1

\* C22: reset_count sets live_count to 0 and leaves last_confirmed_count,
\* unconfirmed_count, pending_upload_count, connection_status, counting_paused
\* and the local queue as they were.
C22_ResetFrame ==
    [][ reset_count
        => /\ live_count' = 0
           /\ UNCHANGED <<last_confirmed_count, unconfirmed_count,
                          pending_upload_count, connection_status,
                          counting_paused, queue>> ]_vars

\* a reset that threw counts away while counts were confirmed, waiting in the
\* queue and counting was paused
C22_Witness ==
    /\ discarded > 0 /\ live_count = 0
    /\ pending_upload_count > 0 /\ PendingSum(queue) > 0
    /\ counting_paused

\* C23: once stop() has set running to False, the sync thread, the display
\* thread and the detection loop end and the GPIO is released; after the
\* release nothing changes SystemState or the local queue.
C23_ShutdownTerminates ==
    /\ (~running) ~> (spc = "exited" /\ dpc = "exited" /\ mpc = "halted" /\ released)
    /\ [][ released => UNCHANGED <<stateVars, queue>> ]_vars

\* C25: no step of the display thread (_display_update_loop, render_screen)
\* changes a field of SystemState or the local queue.
C25_DisplayReadsOnly ==
    [][ DisplayStep => UNCHANGED <<stateVars, queue>> ]_vars

\* the screen was rendered while a confirmation was under way on counted
\* events
C25_Witness ==
    /\ dpc = "wait"
    /\ last_detection_time = 1 /\ live_count > 0
    /\ bpc \notin {"idle", "c_start"}

\* a step of the callback thread or the sync thread out of the given position
ButtonAt(l) == bpc = l /\ bpc' # bpc
SyncAt(l) == spc = l /\ spc' # spc

\* C26: no queue record is ever deleted, the count of a record never changes
\* (a record's position stands for its id and its insertion time), its
\* uploaded flag goes from FALSE to TRUE only, a record changes in
\* mark_uploaded and increment_retry_count only, a record is added by
\* add_count_record only, and get_pending_records and get_total_pending_count
\* change nothing.
C26_QueueAppendOnly ==
    [][ /\ Len(queue') >= Len(queue)
        /\ \A i \in 1..Len(queue) :
              /\ queue'[i].count = queue[i].count
              /\ queue[i].uploaded => queue'[i].uploaded
              /\ (queue'[i].uploaded # queue[i].uploaded)
                    => (ButtonAt("c_mark") \/ SyncAt("s_mark"))
              /\ (queue'[i].retry_count # queue[i].retry_count)
                    => (spc = "s_loop" /\ s_i' = s_i + 1)
        /\ (Len(queue') > Len(queue))
              => (ButtonAt("c_add") /\ Len(queue') = Len(queue) + 1)
        /\ (ButtonAt("c_getpend") \/ ButtonAt("c_gettotal")
            \/ SyncAt("s_getpend") \/ SyncAt("s_total"))
              => UNCHANGED queue ]_vars

\* the queue holds a record flagged by mark_uploaded, a record whose retry
\* count was incremented, and both reads of the drain have run
C26_Witness ==
    /\ \E i \in 1..Len(queue) : queue[i].uploaded
    /\ \E i \in 1..Len(queue) : queue[i].retry_count > 0 /\ ~queue[i].uploaded
    /\ spc = "s_done"

\* C27: within one tick, when upload_count_data fails for a record its retry
\* count is incremented and no later record is attempted: the drain is about
\* to call upload_count_data only when every earlier call of the tick succeeded.
C27_DrainStopsAtFailure ==
    (spc = "s_loop") => (Len(uploaded_ids) = s_i - 1)

C29_FailedReconnect ==
    [][ /\ (spc = "sleep" /\ spc' = "s_connect")
           => UNCHANGED <<last_confirmed_count, unconfirmed_count,
                          pending_upload_count, last_sync_time, queue,
                          reqCount, headStatus, remUnconf>>
        /\ (spc = "s_connect" /\ spc' # spc /\ ~connection')
           => /\ spc' = "sleep"
              /\ connection_status' = "disconnected"
              /\ UNCHANGED <<last_confirmed_count, unconfirmed_count,
                             pending_upload_count, last_sync_time, queue,
                             reqCount, headStatus, remUnconf>> ]_vars

\* before start() has connected, the sync thread completed a connected tick,
\* then lost the connection and failed to reconnect
C29_Witness ==
    /\ spc = "sleep" /\ mpc = "start" /\ ~connection
    /\ connection_status = "disconnected"
    /\ last_sync_time = 1 /\ last_confirmed_count > 0

\* C30: at the end of a tick that ran connected, with every call succeeding
\* and no confirm in between, last_confirmed_count and unconfirmed_count are
\* the values get_current_counts returned in the tick, pending_upload_count is
\* get_total_pending_count() of the queue after the drain, and last_sync_time
\* is set.
C30_TickResult ==
    (spc = "s_done")
        => /\ last_confirmed_count = counts.confirmed
           /\ unconfirmed_count = counts.unconfirmed
           /\ pending_upload_count = get_total_pending_count(TRUE)
           /\ last_sync_time = 1

\* a connected tick ends after it read a confirmed total and unconfirmed
\* remote rows and uploaded a queue record
C30_Witness ==
    /\ spc = "s_done" /\ drained > 0
    /\ counts.confirmed > 0 /\ counts.unconfirmed > 0

\* C24: while the connection stays up, a pending queue record whose uploads
\* do not fail forever is eventually flagged uploaded, whatever happens to the
\* uploads of the other records.
C24_NoStarvation ==
    \A i \in 1..2 :
        SF_vars(upload_succeeds(i)) => <>(queue[i].uploaded)

\* the older record was flagged uploaded in a tick in which the upload of the
\* newer record failed, not for the first time
C24_Witness ==
    /\ Len(queue) = 2
    /\ queue[1].uploaded /\ ~queue[2].uploaded
    /\ queue[2].retry_count = MaxRetry
    /\ spc = "s_done" /\ uploaded_ids = <<1>>

\* C31: a queue record that a connected confirm_count folded into its new
\* total and flagged uploaded is not inserted in the remote event log
\* afterwards: every upload_count_data call of the drain is for a record that
\* is still not flagged uploaded.
C31_NoUploadAfterFold ==
    [][ (spc = "s_loop" /\ s_i' = s_i + 1 /\ remUnconf' # remUnconf)
        => ~queue[s_recs[s_i]].uploaded ]_vars

\* C32: the total a successful confirm_counts writes is never lower than the
\* confirmed total the remote store holds at that moment.
C32_TotalNeverLowered ==
    [][ (bpc = "c_confirm" /\ bpc' = "c_status_ok") => (reqCount' >= reqCount) ]_vars

\* C33: a tick that ends after a successful connected confirm_count, with no
\* sensor event since, leaves unconfirmed_count = 0 and last_confirmed_count
\* equal to the total the confirm wrote.
C33_ConfirmedRowNotRecounted ==
    (spc = "s_done" /\ bpc = "c_done" /\ lastRet = "confirmed")
        => /\ unconfirmed_count = 0
           /\ last_confirmed_count = new_total

\* C34: if from some point on no connect and no ping finds the remote store out
\* of reach and the loop raises no exception, connection_status becomes
\* CONNECTED, whatever it was (DISCONNECTED, RECONNECTING or ERROR), and stays
\* CONNECTED.
C34_EventuallyConnected ==
    (<>[][~StoreFails /\ ~sync_raise]_vars) => <>[](connection_status = "connected")

\* before start() has connected, the sync loop has reconnected and set
\* connection_status to CONNECTED
C34_Witness ==
    /\ spc = "s_get" /\ connection_status = "connected"
    /\ mpc = "start" /\ connection

\* C35: the retry_count of a queue record never decreases; it changes only in
\* a failed upload_count_data attempt of a tick for that record, and when the
\* local store takes the write such an attempt adds exactly 1; a successful
\* upload and a confirm leave it as it is.
C35_RetryAccounting ==
    [][ \A i \in 1..Len(queue) :
          LET attempt == spc = "s_loop" /\ s_i' = s_i + 1 /\ s_recs[s_i] = i
              before  == queue[i].retry_count
              after   == queue'[i].retry_count
          IN  /\ after >= before
              /\ (after # before) => (attempt /\ uploaded_ids' = uploaded_ids)
              /\ (attempt /\ \E r \in {"error", "down"} : sync_upload(r, TRUE))
                    => (after = before + 1) ]_vars

\* a record whose upload failed in one tick and succeeded in a later one
C35_Witness ==
    \E i \in 1..Len(queue) :
        /\ queue[i].retry_count > 0 /\ queue[i].inserts = 1
        /\ queue[i].uploaded

\* C36: in SensorCounter, after any sequence of button and sensor presses,
\* 0 <= unconfirmed_total <= live_count
C36_UnconfirmedWithinLive ==
    /\ 0 <= counter.unconfirmed_total
    /\ counter.unconfirmed_total <= counter.live_count
\* a count was confirmed with KEY2 and then another part was counted
C36_Witness ==
    /\ counter.live_count = 2 /\ counter.unconfirmed_total = 1
    /\ counter.counting_active

\* C37: the sensor is counted once per falling edge: a read of the sensor pin
\* raises live_count, by one, exactly when the previous read that returned a
\* level returned 1, this read returns 0 and counting_active is true; a failed
\* read counts nothing and leaves the stored state as it was
C37_OncePerFallingEdge ==
    [][ (c_i = Len(PinOrder))
        => /\ (counter'.live_count # counter.live_count)
                <=> (seen = 1 /\ seen' = 0 /\ counter.counting_active)
           /\ counter'.live_count \in {counter.live_count, counter.live_count + 1}
           /\ (seen' = seen)
                => (counter'.button_states = counter.button_states) ]_vars


\* C38: the studCount that sendData inserts is never negative and equals the
\* number of rising edges detected since the previous send, the first send
\* included
C38_StudCountIsEdges ==
    lhist.sent => /\ lhist.studCount >= 0
                  /\ lhist.studCount = lhist.sent_edges

====
